---- MODULE Spec2Model ----
(***************************************************************************)
(* AeroScope (src/app.py): the air-quality request handler, the two-tier   *)
(* reverse-geocoding resolver, the AQI classifier and the percentage-of-   *)
(* guideline computation.                                                  *)
(*                                                                         *)
(* Conventions.                                                            *)
(*  - A JSON object is a record; an optional key is a key that may be      *)
(*    missing from the record's DOMAIN (Python: `'k' in d`, d.get('k')).   *)
(*  - A JSON array is a sequence.  Where a payload may be either, it is    *)
(*    [type |-> "dict", fields |-> record] or                              *)
(*    [type |-> "list", items |-> sequence].                               *)
(*  - A concentration is an exact rational <<n, d>> (d > 0, lowest terms). *)
(*  - A Python call that may raise yields [raised |-> TRUE] or             *)
(*    [raised |-> FALSE, value |-> v].                                     *)
(*  - Non-ASCII display text of the source (the micro sign, subscripts)    *)
(*    is transliterated to ASCII.                                          *)
(***************************************************************************)
EXTENDS Integers, Sequences, FiniteSets, TLC

VARIABLES
    pc,               \* position of the request inside get_air_quality
    GOOGLE_API_KEY,   \* TRUE iff the primary credential is configured (line 25)
    args,             \* request.args: the query parameters, 'lat' and 'lon' optional
    calls,            \* the external requests issued so far, in order
    poll,             \* the upstream pollution response
    via,              \* which call site invoked get_location_name_fallback
    gresp,            \* the primary (Google) geocoding response
    fresp,            \* the secondary (OpenWeatherMap) geocoding response
    geo,              \* outcome of get_location_name
    response,         \* the handler's HTTP response
    fn_arg, fn_ret    \* argument and result of a pure-function application

vars == <<pc, GOOGLE_API_KEY, args, calls, poll, via, gresp, fresp, geo,
          response, fn_arg, fn_ret>>

reqvars == <<pc, GOOGLE_API_KEY, args, calls, poll, via, gresp, fresp, geo,
             response>>

-----------------------------------------------------------------------------
(* Bounds of the model.                                                    *)

MaxComp == 2        \* address_components per primary result
MaxRecords == 2     \* records in a secondary answer
MaxAqi == 8         \* classifier inputs range over -MaxAqi .. MaxAqi
MaxRaw == 6         \* raw concentrations: numerators 0 .. MaxRaw near 0 and near the maximum

HTTP_OK == 200

Sentinel == "Unknown Location"

-----------------------------------------------------------------------------
(* Exact rationals.                                                        *)

RECURSIVE GCD(_, _)
GCD(a, b) == IF b = 0 THEN a ELSE GCD(b, a % b)

Rat(n, d) == IF n = 0 THEN <<0, 1>> ELSE LET g == GCD(n, d) IN <<n \div g, d \div g>>

RatLeq(p, q) == p[1] * q[2] <= q[1] * p[2]

\* Python's min(a, b): a unless b is strictly smaller.
RatMin(p, q) == IF RatLeq(p, q) THEN p ELSE q

-----------------------------------------------------------------------------
(* get_air_quality_description (lines 28-41).                              *)

\* A variant that takes every aqi from 5 up for row 5 (C9 tells it apart).
get_air_quality_description_ge5(aqi) ==
    IF aqi = 1 THEN [description |-> "Good", class |-> "good", color |-> "#00e400"]
    ELSE IF aqi = 2 THEN [description |-> "Fair", class |-> "fair", color |-> "#ffff00"]
    ELSE IF aqi = 3 THEN [description |-> "Moderate", class |-> "moderate", color |-> "#ff7e00"]
    ELSE IF aqi = 4 THEN [description |-> "Poor", class |-> "poor", color |-> "#ff0000"]
    ELSE IF aqi >= 5 THEN [description |-> "Very Poor", class |-> "very-poor", color |-> "#8f3f97"]
    ELSE [description |-> "Unknown", class |-> "unknown", color |-> "#999999"]

get_air_quality_description(aqi) ==
    IF aqi = 1 THEN [description |-> "Good", class |-> "good", color |-> "#00e400"]
    ELSE IF aqi = 2 THEN [description |-> "Fair", class |-> "fair", color |-> "#ffff00"]
    ELSE IF aqi = 3 THEN [description |-> "Moderate", class |-> "moderate", color |-> "#ff7e00"]
    ELSE IF aqi = 4 THEN [description |-> "Poor", class |-> "poor", color |-> "#ff0000"]
    ELSE IF aqi = 5 THEN [description |-> "Very Poor", class |-> "very-poor", color |-> "#8f3f97"]
    ELSE [description |-> "Unknown", class |-> "unknown", color |-> "#999999"]

-----------------------------------------------------------------------------
(* calculate_percentage (lines 43-47): value is a rational, max_value an   *)
(* integer; the result is min(100, value / max_value * 100).               *)

\* A variant without the clamp at 100 (C8 tells it apart).
calculate_percentage_noclamp(value, max_value) ==
    IF max_value = 0 THEN <<0, 1>>
    ELSE Rat(value[1] * 100, value[2] * max_value)

calculate_percentage(value, max_value) ==
    IF max_value = 0 THEN <<0, 1>>
    ELSE RatMin(<<100, 1>>, Rat(value[1] * 100, value[2] * max_value))

\* The guideline table of get_air_quality (lines 177-184).
PollutantKeys == <<"pm2_5", "pm10", "co", "no2", "so2", "o3">>

max_values == [pm2_5 |-> 25, pm10 |-> 50, co |-> 10000, no2 |-> 200,
               so2 |-> 350, o3 |-> 180]

-----------------------------------------------------------------------------
(* Python helpers.                                                         *)

\* sep.join(parts)
RECURSIVE Join(_, _)
Join(parts, sep) ==
    IF parts = <<>> THEN ""
    ELSE IF Len(parts) = 1 THEN parts[1]
    ELSE parts[1] \o sep \o Join(Tail(parts), sep)

\* d.get(k, default)
Get(d, k, default) == IF k \in DOMAIN d THEN d[k] ELSE default

\* the dict d after d[k] = v
DictSet(d, k, v) == [x \in (DOMAIN d) \cup {k} |-> IF x = k THEN v ELSE d[x]]

EmptyDict == [x \in {} |-> ""]

\* float(s) of the query-string values the model draws (line 244, 245).
FloatTable == [lat1 |-> <<143, 5>>, lon1 |-> <<386, 5>>]

ArgText == [lat1 |-> "28.6", lon1 |-> "77.2"]

float(s) ==
    IF s = ArgText.lat1 THEN [raised |-> FALSE, value |-> FloatTable.lat1]
    ELSE IF s = ArgText.lon1 THEN [raised |-> FALSE, value |-> FloatTable.lon1]
    ELSE [raised |-> TRUE]

-----------------------------------------------------------------------------
(* get_location_name_fallback (lines 109-138).                             *)

\* A variant that appends the fragments in the opposite order (C3 tells it apart).
FallbackParts_reversed(location_data) ==
    (IF "country" \in DOMAIN location_data THEN <<location_data.country>> ELSE <<>>)
    \o (IF "state" \in DOMAIN location_data THEN <<location_data.state>> ELSE <<>>)
    \o (IF "name" \in DOMAIN location_data THEN <<location_data.name>> ELSE <<>>)

\* lines 121-127: the fragments of the first record, in the order name, state, country
FallbackParts(location_data) ==
    (IF "name" \in DOMAIN location_data THEN <<location_data.name>> ELSE <<>>)
    \o (IF "state" \in DOMAIN location_data THEN <<location_data.state>> ELSE <<>>)
    \o (IF "country" \in DOMAIN location_data THEN <<location_data.country>> ELSE <<>>)

\* lines 112-134: the body of the try block, given the answer to requests.get
FallbackTry(r) ==
    IF r.kind = "raise" THEN [raised |-> TRUE]                 \* requests.get raised
    ELSE IF r.status_code = HTTP_OK THEN
        IF ~r.body.json THEN [raised |-> TRUE]                 \* response.json() raised
        ELSE LET data == r.body.data IN
            IF data.type = "dict"
            THEN [raised |-> TRUE]                             \* data[0] on a dict: KeyError
            ELSE IF data.items # <<>> THEN
                LET parts == FallbackParts(data.items[1]) IN
                [raised |-> FALSE,
                 value |-> IF parts # <<>> THEN Join(parts, ", ") ELSE Sentinel]
            ELSE [raised |-> FALSE, value |-> Sentinel]
    ELSE [raised |-> FALSE, value |-> Sentinel]

\* A variant without the except clause of lines 136-138 (C1 tells it apart).
get_location_name_fallback_noexcept(r) == FallbackTry(r)

\* lines 111, 136-138: try ... except Exception: return 'Unknown Location'
get_location_name_fallback(r) ==
    LET t == FallbackTry(r) IN
    IF t.raised THEN [raised |-> FALSE, value |-> Sentinel] ELSE t

-----------------------------------------------------------------------------
(* get_location_name (lines 49-107).                                       *)

\* lines 73-84: the elif chain that files one component under a key
ComponentKey(types) ==
    IF "postal_code" \in types THEN "postal_code"
    ELSE IF "route" \in types THEN "street"
    ELSE IF "sublocality" \in types \/ "neighborhood" \in types THEN "area"
    ELSE IF "locality" \in types THEN "city"
    ELSE IF "administrative_area_level_1" \in types THEN "state"
    ELSE IF "country" \in types THEN "country"
    ELSE ""

\* lines 68-84: the loop over address_components, filling location_parts
RECURSIVE LocationParts(_)
LocationParts(address_components) ==
    IF address_components = <<>> THEN EmptyDict
    ELSE LET n == Len(address_components)
             before == LocationParts(SubSeq(address_components, 1, n - 1))
             component == address_components[n]
             key == ComponentKey(Get(component, "types", {}))
         IN IF key = "" THEN before
            ELSE DictSet(before, key, Get(component, "long_name", ""))

\* A variant that prefers the city to the area (C7 tells it apart).
PrimaryParts_cityfirst(location_parts) ==
    (IF "postal_code" \in DOMAIN location_parts THEN <<location_parts.postal_code>> ELSE <<>>)
    \o (IF "street" \in DOMAIN location_parts THEN <<location_parts.street>> ELSE <<>>)
    \o (IF "city" \in DOMAIN location_parts THEN <<location_parts.city>>
        ELSE IF "area" \in DOMAIN location_parts THEN <<location_parts.area>>
        ELSE <<>>)

\* lines 87-95: the parts of the name, in order
PrimaryParts(location_parts) ==
    (IF "postal_code" \in DOMAIN location_parts THEN <<location_parts.postal_code>> ELSE <<>>)
    \o (IF "street" \in DOMAIN location_parts THEN <<location_parts.street>> ELSE <<>>)
    \o (IF "area" \in DOMAIN location_parts THEN <<location_parts.area>>
        ELSE IF "city" \in DOMAIN location_parts THEN <<location_parts.city>>
        ELSE <<>>)

\* A variant that ignores formatted_address (C10 tells it apart).
PrimaryName_nofa(result) ==
    LET parts == PrimaryParts(LocationParts(Get(result, "address_components", <<>>)))
    IN IF parts # <<>> THEN Join(parts, ", ") ELSE Sentinel

\* lines 64-97: the name built from the first result
PrimaryName(result) ==
    LET parts == PrimaryParts(LocationParts(Get(result, "address_components", <<>>)))
    IN IF parts # <<>> THEN Join(parts, ", ")
       ELSE Get(result, "formatted_address", Sentinel)

\* line 62: data.get('status') == 'OK' and data.get('results')
PrimaryAccepted(data) ==
    /\ "status" \in DOMAIN data /\ data.status = "OK"
    /\ "results" \in DOMAIN data /\ data.results # <<>>

\* A variant that gives up with the sentinel on a status other than 200, without
\* trying the secondary (C2 tells it apart).
PrimaryTry_giveup(r) ==
    IF r.kind = "raise" THEN [out |-> "raise"]
    ELSE IF r.status_code = HTTP_OK THEN
        IF ~r.body.json THEN [out |-> "raise"]
        ELSE LET data == r.body.data IN
            IF data.type # "dict" THEN [out |-> "raise"]
            ELSE IF PrimaryAccepted(data.fields)
                 THEN [out |-> "return", value |-> PrimaryName(data.fields.results[1])]
                 ELSE [out |-> "fallback"]
    ELSE [out |-> "return", value |-> Sentinel]

\* lines 57-103: the body of the try block, given the answer to requests.get;
\* out = "fallback" is a call of get_location_name_fallback at line 100 or 103
PrimaryTry(r) ==
    IF r.kind = "raise" THEN [out |-> "raise"]                 \* requests.get raised
    ELSE IF r.status_code = HTTP_OK THEN
        IF ~r.body.json THEN [out |-> "raise"]                 \* response.json() raised
        ELSE LET data == r.body.data IN
            IF data.type # "dict" THEN [out |-> "raise"]       \* data.get on a list: AttributeError
            ELSE IF PrimaryAccepted(data.fields)
                 THEN [out |-> "return", value |-> PrimaryName(data.fields.results[1])]
                 ELSE [out |-> "fallback"]                     \* line 100
    ELSE [out |-> "fallback"]                                  \* line 103

-----------------------------------------------------------------------------
(* The inputs the environment can supply.                                  *)

\* all sequences over S of length at most n
RECURSIVE SeqsUpTo(_, _)
SeqsUpTo(S, n) ==
    IF n = 0 THEN {<<>>}
    ELSE LET shorter == SeqsUpTo(S, n - 1)
         IN shorter \cup {Append(q, x) : q \in {t \in shorter : Len(t) = n - 1}, x \in S}

\* query strings: missing, empty, non-numeric, numeric
LatArgs == {"", "abc", ArgText.lat1}
LonArgs == {"", "east", ArgText.lon1}

ArgSets ==
    {[path |-> "/api/air-quality"]}
    \cup {("lat" :> a) @@ [path |-> "/api/air-quality"] : a \in LatArgs}
    \cup {("lon" :> o) @@ [path |-> "/api/air-quality"] : o \in LonArgs}
    \cup {("lat" :> a) @@ ("lon" :> o) @@ [path |-> "/api/air-quality"] :
            a \in LatArgs, o \in LonArgs}

\* the pollution payloads: components of the entry
ScenarioComponents ==
    [pm2_5 |-> <<25, 2>>, pm10 |-> <<0, 1>>, co |-> <<500, 1>>,
     no2 |-> <<40, 1>>, so2 |-> <<0, 1>>, o3 |-> <<90, 1>>]

SparseComponents == [pm2_5 |-> <<40, 1>>, nh3 |-> <<1, 2>>]

PollutionEntries ==
    {[main |-> [aqi |-> 2], components |-> ScenarioComponents],
     [main |-> [aqi |-> 6], components |-> SparseComponents]}
    \cup {[components |-> ScenarioComponents],                        \* no 'main'
          [main |-> [dt |-> 0], components |-> ScenarioComponents],   \* 'main' without 'aqi'
          [main |-> [aqi |-> 3]]}                                     \* no 'components'

PollutionData ==
    {[coord |-> "c"], [coord |-> "c", list |-> <<>>]}
    \cup {[coord |-> "c", list |-> <<e>>] : e \in PollutionEntries}

HttpResponses(Data) ==
    {[kind |-> "raise"]}
    \cup {[kind |-> "http", status_code |-> s, body |-> [json |-> FALSE]] : s \in {401, 500}}
    \cup {[kind |-> "http", status_code |-> HTTP_OK, body |-> [json |-> FALSE]]}
    \cup {[kind |-> "http", status_code |-> HTTP_OK, body |-> [json |-> TRUE, data |-> d]] :
            d \in Data}

PollutionResponses == HttpResponses(PollutionData)

\* the primary provider's answers
Components ==
    {[types |-> t, long_name |-> n] :
        t \in {{"postal_code"}, {"route"}, {"sublocality", "political"},
               {"neighborhood", "political"}, {"locality", "political"}},
        n \in {"N1", "N2"}}
    \cup {[types |-> {"administrative_area_level_1", "political"}, long_name |-> "Haryana"],
          [types |-> {"country", "political"}, long_name |-> "India"],
          [types |-> {"route"}],              \* no 'long_name'
          [long_name |-> "N1"]}               \* no 'types'

FirstResults ==
    LET places == {[place_id |-> "p"]}
                  \cup {[place_id |-> "p", address_components |-> ac] :
                          ac \in SeqsUpTo(Components, MaxComp)}
    IN places \cup {("formatted_address" :> "Heli Mandi Road, Farrukhnagar") @@ p : p \in places}

DecoyResult ==
    [place_id |-> "q", formatted_address |-> "Elsewhere",
     address_components |-> <<[types |-> {"locality", "political"}, long_name |-> "Decoy"]>>]

PrimaryDicts ==
    LET other == {[error_message |-> "m"]}
                 \cup {[status |-> st] : st \in {"ZERO_RESULTS", "REQUEST_DENIED"}}
        few == {<<>>, <<DecoyResult>>}
        many == {<<>>} \cup {<<r>> \o t : r \in FirstResults, t \in few}
    IN other
       \cup {("results" :> rs) @@ o : rs \in few, o \in other}
       \cup {[status |-> "OK"]}
       \cup {[status |-> "OK", results |-> rs] : rs \in many}

PrimaryData ==
    {[type |-> "list", items |-> <<>>]} \cup {[type |-> "dict", fields |-> d] : d \in PrimaryDicts}

PrimaryResponses == HttpResponses(PrimaryData)

\* the secondary provider's answers
Records ==
    LET base == [lat |-> "28.6", lon |-> "77.2"]
        opt(k, val) == {base, (k :> val) @@ base}
    IN {a @@ b @@ c : a \in opt("name", "Farrukhnagar"),
                      b \in opt("state", "Haryana"),
                      c \in opt("country", "IN")}

SecondaryData ==
    {[type |-> "dict", fields |-> [cod |-> "400"]]}
    \cup {[type |-> "list", items |-> rs] : rs \in SeqsUpTo(Records, MaxRecords)}

SecondaryResponses == HttpResponses(SecondaryData)

NoResponse == [kind |-> "none"]

-----------------------------------------------------------------------------
(* get_air_quality (lines 145-257).                                        *)

Error(status, message) == [status |-> status, body |-> [error |-> message]]

\* lines 186-230: component_data
ComponentMeta ==
    [pm2_5 |-> [name |-> "PM2.5", description |-> "Fine Particulate Matter"],
     pm10 |-> [name |-> "PM10", description |-> "Coarse Particulate Matter"],
     co |-> [name |-> "CO", description |-> "Carbon Monoxide"],
     no2 |-> [name |-> "NO2", description |-> "Nitrogen Dioxide"],
     so2 |-> [name |-> "SO2", description |-> "Sulfur Dioxide"],
     o3 |-> [name |-> "O3", description |-> "Ozone"]]

ComponentData(components) ==
    [k \in {PollutantKeys[i] : i \in 1..Len(PollutantKeys)} |->
        [name |-> ComponentMeta[k].name,
         value |-> Get(components, k, <<0, 1>>),
         percentage |-> calculate_percentage(Get(components, k, <<0, 1>>), max_values[k]),
         unit |-> "ug/m3",
         description |-> ComponentMeta[k].description]]

\* lines 152-153: not lat or not lon
MissingArg(a) == "lat" \notin DOMAIN a \/ a.lat = "" \/ "lon" \notin DOMAIN a \/ a.lon = ""

\* A variant that answers with an error when no name was found (C4 tells it apart).
Finish_nolocation(g) ==
    IF g.raised \/ g.value = Sentinel THEN Error(500, "An unexpected error occurred")
    ELSE LET aqi_data == poll.body.data.list[1]
             aqi == aqi_data.main.aqi
             aqi_info == get_air_quality_description(aqi)
             flat == float(args.lat)
             flon == float(args.lon)
         IN IF flat.raised \/ flon.raised
            THEN Error(500, "An unexpected error occurred")
            ELSE [status |-> HTTP_OK,
                  body |-> [aqi |-> [value |-> aqi,
                                     description |-> aqi_info.description,
                                     class |-> aqi_info.class,
                                     color |-> aqi_info.color],
                            components |-> ComponentData(aqi_data.components),
                            location |-> [lat |-> flat.value, lon |-> flon.value,
                                          name |-> g.value]]]

\* lines 235-257: the response once get_location_name has come back with g
Finish(g) ==
    IF g.raised THEN Error(500, "An unexpected error occurred")    \* lines 255-257
    ELSE LET aqi_data == poll.body.data.list[1]
             aqi == aqi_data.main.aqi
             aqi_info == get_air_quality_description(aqi)
             flat == float(args.lat)
             flon == float(args.lon)
         IN IF flat.raised \/ flon.raised
            THEN Error(500, "An unexpected error occurred")        \* ValueError, lines 255-257
            ELSE [status |-> HTTP_OK,
                  body |-> [aqi |-> [value |-> aqi,
                                     description |-> aqi_info.description,
                                     class |-> aqi_info.class,
                                     color |-> aqi_info.color],
                            components |-> ComponentData(aqi_data.components),
                            location |-> [lat |-> flat.value, lon |-> flon.value,
                                          name |-> g.value]]]

NoGeo == [state |-> "pending"]
NoHttp == [status |-> 0]

\* lines 149-157: read the arguments, reject a missing one, else request the pollution data
Start ==
    /\ pc = "start"
    /\ IF MissingArg(args)
       THEN /\ response' = Error(400, "Latitude and longitude are required")
            /\ pc' = "done"
            /\ UNCHANGED calls
       ELSE /\ calls' = Append(calls, "pollution")
            /\ pc' = "pollution_wait"
            /\ UNCHANGED response
    /\ UNCHANGED <<GOOGLE_API_KEY, args, poll, via, gresp, fresp, geo, fn_arg, fn_ret>>

\* lines 159-171: what stops the handler once the pollution answer is in;
\* [stop |-> FALSE] when it goes on to get_location_name
PollutionCheck(r) ==
    IF r.kind = "raise"
    THEN [stop |-> TRUE, errors |-> {Error(500, "Network error while fetching air quality data")}]
    ELSE IF r.status_code # HTTP_OK
    THEN [stop |-> TRUE, errors |-> {Error(500, "Failed to fetch air quality data")}]
    ELSE IF ~r.body.json
    \* response.json() raises ValueError, which newer releases of requests make a
    \* RequestException as well: either handler of lines 252-257 can be the one
    THEN [stop |-> TRUE, errors |-> {Error(500, "Network error while fetching air quality data"),
                                     Error(500, "An unexpected error occurred")}]
    ELSE LET data == r.body.data IN
        IF "list" \notin DOMAIN data \/ data.list = <<>>
        THEN [stop |-> TRUE, errors |-> {Error(404, "No air quality data available")}]
        ELSE LET aqi_data == data.list[1] IN
            IF \/ "main" \notin DOMAIN aqi_data
               \/ "aqi" \notin DOMAIN aqi_data.main
               \/ "components" \notin DOMAIN aqi_data
            THEN [stop |-> TRUE, errors |-> {Error(500, "An unexpected error occurred")}]  \* KeyError
            ELSE [stop |-> FALSE]

\* lines 157-233, 51-58, 113-114: the pollution answer arrives; the handler answers
\* with an error, or enters get_location_name, which issues its first request
PollutionResponse(r) ==
    /\ pc = "pollution_wait"
    /\ poll' = r
    /\ LET c == PollutionCheck(r) IN
       IF c.stop
       THEN /\ \E e \in c.errors : response' = e
            /\ pc' = "done"
            /\ UNCHANGED <<calls, via>>
       ELSE IF ~GOOGLE_API_KEY
       THEN /\ calls' = Append(calls, "secondary")             \* line 54
            /\ via' = "nokey"
            /\ pc' = "fallback_wait"
            /\ UNCHANGED response
       ELSE /\ calls' = Append(calls, "primary")               \* line 58
            /\ pc' = "primary_wait"
            /\ UNCHANGED <<response, via>>
    /\ UNCHANGED <<GOOGLE_API_KEY, args, gresp, fresp, geo, fn_arg, fn_ret>>

\* lines 58-107, 235-257: the primary answer arrives; get_location_name returns a
\* name and the handler answers, or get_location_name_fallback issues its request
PrimaryResponse(r) ==
    /\ pc = "primary_wait"
    /\ gresp' = r
    /\ LET t == PrimaryTry(r) IN
       IF t.out = "return"
       THEN /\ geo' = [state |-> "returned", value |-> t.value]
            /\ response' = Finish([raised |-> FALSE, value |-> t.value])
            /\ pc' = "done"
            /\ UNCHANGED <<calls, via>>
       ELSE /\ calls' = Append(calls, "secondary")             \* line 114
            /\ via' = IF t.out = "raise" THEN "except" ELSE "try"
            /\ pc' = "fallback_wait"
            /\ UNCHANGED <<geo, response>>
    /\ UNCHANGED <<GOOGLE_API_KEY, args, poll, fresp, fn_arg, fn_ret>>

\* lines 114-138, 235-257: the secondary answer arrives; get_location_name_fallback
\* returns and the handler answers.  An exception leaving get_location_name_fallback
\* at line 100 or 103 would be caught at line 105 and line 107 would call it again.
FallbackResponse(r) ==
    /\ pc = "fallback_wait"
    /\ fresp' = r
    /\ LET f == get_location_name_fallback(r) IN
       IF f.raised /\ via = "try"
       THEN /\ calls' = Append(calls, "secondary")
            /\ via' = "except"
            /\ UNCHANGED <<pc, geo, response>>
       ELSE /\ geo' = IF f.raised THEN [state |-> "raised"]
                      ELSE [state |-> "returned", value |-> f.value]
            /\ response' = Finish(f)
            /\ pc' = "done"
            /\ UNCHANGED <<calls, via>>
    /\ UNCHANGED <<GOOGLE_API_KEY, args, poll, gresp, fn_arg, fn_ret>>

-----------------------------------------------------------------------------
(* One request to /api/air-quality.                                        *)

NoCall == [fn |-> "none"]
NoResult == [done |-> FALSE]

Init ==
    /\ pc = "start"
    /\ GOOGLE_API_KEY \in BOOLEAN
    /\ args \in ArgSets
    /\ calls = <<>>
    /\ poll = NoResponse
    /\ via = "none"
    /\ gresp = NoResponse
    /\ fresp = NoResponse
    /\ geo = NoGeo
    /\ response = NoHttp
    /\ fn_arg = NoCall
    /\ fn_ret = NoResult

\* the answers are enumerated only where a request is pending
PollutionAnswer == pc = "pollution_wait" /\ \E r \in PollutionResponses : PollutionResponse(r)
PrimaryAnswer == pc = "primary_wait" /\ \E r \in PrimaryResponses : PrimaryResponse(r)
FallbackAnswer == pc = "fallback_wait" /\ \E r \in SecondaryResponses : FallbackResponse(r)

Next == Start \/ PollutionAnswer \/ PrimaryAnswer \/ FallbackAnswer

Spec == Init /\ [][Next]_vars

\* every requests.get carries a timeout (lines 58, 114, 157), so a pending request
\* is always answered or raises, and the handler's own steps always run.  The
\* request here carries both coordinates, which get_location_name only copies into
\* its URLs (lines 57, 113).
InitBothArgs ==
    /\ Init
    /\ args = [path |-> "/api/air-quality", lat |-> ArgText.lat1, lon |-> ArgText.lon1]

FairSpec == InitBothArgs /\ [][Next]_vars /\ WF_vars(Next)

-----------------------------------------------------------------------------
(* The two pure functions applied to inputs of their own.                  *)

RawValues(max_value) ==
    {Rat(n, d) : n \in 0..MaxRaw, d \in {1, 2}}
    \cup {Rat(max_value * d + k, d) : k \in 0..MaxRaw, d \in {1, 2}}
    \cup {Rat(max_value * 2 - k, 2) : k \in {j \in 0..MaxRaw : j <= max_value * 2}}
    \cup {<<25, 2>>, <<10 * max_value, 1>>}

PureCalls ==
    {[fn |-> "get_air_quality_description", aqi |-> a] : a \in (0 - MaxAqi)..MaxAqi}
    \cup UNION {{[fn |-> "calculate_percentage", value |-> v, max_value |-> m] :
                    v \in RawValues(m)} :
                m \in {max_values[PollutantKeys[i]] : i \in 1..Len(PollutantKeys)} \cup {0}}

InitPure ==
    /\ pc = "idle"
    /\ GOOGLE_API_KEY = FALSE
    /\ args = [path |-> "/"]
    /\ calls = <<>>
    /\ poll = NoResponse
    /\ via = "none"
    /\ gresp = NoResponse
    /\ fresp = NoResponse
    /\ geo = NoGeo
    /\ response = NoHttp
    /\ fn_arg \in PureCalls
    /\ fn_ret = NoResult

Classify ==
    /\ fn_arg.fn = "get_air_quality_description"
    /\ ~fn_ret.done
    /\ fn_ret' = [done |-> TRUE, value |-> get_air_quality_description(fn_arg.aqi)]
    /\ UNCHANGED <<reqvars, fn_arg>>

Percentage ==
    /\ fn_arg.fn = "calculate_percentage"
    /\ ~fn_ret.done
    /\ fn_ret' = [done |-> TRUE,
                  value |-> calculate_percentage(fn_arg.value, fn_arg.max_value)]
    /\ UNCHANGED <<reqvars, fn_arg>>

NextPure == Classify \/ Percentage

SpecPure == InitPure /\ [][NextPure]_vars

-----------------------------------------------------------------------------
(* Vocabulary of the properties: what the environment answered, stated on  *)
(* the recorded answers and not through the resolver's own operators.      *)

Count(e) == Cardinality({i \in DOMAIN calls : calls[i] = e})

Http200(r) == r.kind = "http" /\ r.status_code = 200

ParsedDict(r) == Http200(r) /\ r.body.json /\ r.body.data.type = "dict"

ParsedList(r) == Http200(r) /\ r.body.json /\ r.body.data.type = "list"

PrimaryStatusOK(r) ==
    /\ ParsedDict(r)
    /\ "status" \in DOMAIN r.body.data.fields
    /\ r.body.data.fields.status = "OK"

PrimaryHasResults(r) ==
    /\ ParsedDict(r)
    /\ "results" \in DOMAIN r.body.data.fields
    /\ Len(r.body.data.fields.results) >= 1

PrimarySuccess(r) == PrimaryStatusOK(r) /\ PrimaryHasResults(r)

FirstResult(r) == r.body.data.fields.results[1]

PrimaryFailedOrUnavailable ==
    \/ ~GOOGLE_API_KEY
    \/ gresp.kind = "raise"
    \/ (gresp.kind = "http" /\ gresp.status_code # 200)
    \/ (gresp.kind = "http" /\ ~PrimaryStatusOK(gresp))
    \/ (gresp.kind = "http" /\ ~PrimaryHasResults(gresp))

SecondaryHasRecord(r) == ParsedList(r) /\ Len(r.body.data.items) >= 1

FirstRecord(r) == r.body.data.items[1]

SecondaryFailed(r) ==
    \/ r.kind = "raise"
    \/ (r.kind = "http" /\ ~SecondaryHasRecord(r))

ResolverStarted == Count("primary") + Count("secondary") >= 1

CommaJoined(parts) ==
    CASE Len(parts) = 0 -> ""
      [] Len(parts) = 1 -> parts[1]
      [] Len(parts) = 2 -> parts[1] \o ", " \o parts[2]
      [] Len(parts) = 3 -> parts[1] \o ", " \o parts[2] \o ", " \o parts[3]

\* the values of the keys of `keys` that rec carries, in the order of `keys`
PresentFragments(rec, keys) ==
    LET present == SelectSeq(keys, LAMBDA k : k \in DOMAIN rec)
    IN [i \in 1..Len(present) |-> rec[present[i]]]

\* the long_name of the last component of one of the types T, if any
Fragment(comps, T) ==
    LET idx == {i \in 1..Len(comps) : Get(comps[i], "types", {}) \cap T # {}}
    IN IF idx = {} THEN <<>>
       ELSE <<Get(comps[CHOOSE i \in idx : \A j \in idx : j <= i], "long_name", "")>>

ExpectedPrimaryParts(result) ==
    LET comps == Get(result, "address_components", <<>>)
        area == Fragment(comps, {"sublocality", "neighborhood"})
    IN Fragment(comps, {"postal_code"}) \o Fragment(comps, {"route"})
       \o (IF area # <<>> THEN area ELSE Fragment(comps, {"locality"}))

NumericTexts == {ArgText.lat1, ArgText.lon1}

CoordsNumeric ==
    /\ "lat" \in DOMAIN args /\ args.lat \in NumericTexts
    /\ "lon" \in DOMAIN args /\ args.lon \in NumericTexts

PollutionValid ==
    /\ Http200(poll) /\ poll.body.json
    /\ "list" \in DOMAIN poll.body.data /\ Len(poll.body.data.list) >= 1
    /\ "main" \in DOMAIN poll.body.data.list[1]
    /\ "aqi" \in DOMAIN poll.body.data.list[1].main
    /\ "components" \in DOMAIN poll.body.data.list[1]

-----------------------------------------------------------------------------
(* Properties.                                                             *)

\* C1: get_location_name never lets an exception escape, and once it has issued a
\* request it always comes to return a name, whatever the two providers answer.
C1_ResolverAlwaysReturns ==
    /\ [](geo.state # "raised")
    /\ [](pc = "done" /\ ResolverStarted => geo.state = "returned")
    /\ <>(pc = "done")

C1_Witness ==
    /\ pc = "done" /\ GOOGLE_API_KEY
    /\ Http200(gresp) /\ ~gresp.body.json
    /\ fresp.kind = "http" /\ fresp.status_code = 500
    /\ geo.state = "returned" /\ geo.value = Sentinel

\* C2: each provider is called at most once; the secondary is never called while
\* the primary is pending nor before it; without a credential the primary is never
\* called; and once the primary attempt is over the secondary has been called iff
\* the primary was unavailable or failed.
C2_SingleShotOrdered ==
    /\ Count("primary") <= 1
    /\ Count("secondary") <= 1
    /\ pc = "primary_wait" => Count("secondary") = 0
    /\ \A i, j \in DOMAIN calls :
          calls[i] = "secondary" /\ calls[j] = "primary" => j < i
    /\ ~GOOGLE_API_KEY => Count("primary") = 0
    /\ ResolverStarted /\ pc # "primary_wait" =>
          (Count("secondary") = 1 <=> PrimaryFailedOrUnavailable)

C2_Witness ==
    /\ pc = "done"
    /\ calls = <<"pollution", "primary", "secondary">>
    /\ PrimaryStatusOK(gresp) /\ ~PrimaryHasResults(gresp)

\* C3: primary answers 200 with a status other than OK, secondary answers 200 with
\* a first record carrying one of name/state/country: the secondary was invoked
\* exactly once and its name, the fragments name, state, country joined in that
\* order with ", ", is returned, not the sentinel.
C3_FallbackNameReturned ==
    ( /\ pc = "done"
      /\ ParsedDict(gresp) /\ ~PrimaryStatusOK(gresp)
      /\ SecondaryHasRecord(fresp)
      /\ DOMAIN FirstRecord(fresp) \cap {"name", "state", "country"} # {} )
    => /\ Count("secondary") = 1
       /\ geo.state = "returned"
       /\ geo.value = CommaJoined(PresentFragments(FirstRecord(fresp),
                                                   <<"name", "state", "country">>))
       /\ geo.value # Sentinel

C3_Witness ==
    /\ pc = "done"
    /\ ParsedDict(gresp) /\ ~PrimaryStatusOK(gresp)
    /\ SecondaryHasRecord(fresp)
    /\ {"name", "country"} \subseteq DOMAIN FirstRecord(fresp)
    /\ geo.state = "returned" /\ geo.value = "Farrukhnagar, IN"

\* C4: both tiers fail while the pollution payload and the coordinates are valid:
\* the name is exactly the sentinel and the answer is a complete success result.
C4_GeocodingFailureIsolated ==
    ( /\ pc = "done" /\ PollutionValid /\ CoordsNumeric
      /\ PrimaryFailedOrUnavailable /\ SecondaryFailed(fresp) )
    => /\ geo.state = "returned" /\ geo.value = Sentinel
       /\ response.status = 200
       /\ DOMAIN response.body = {"aqi", "components", "location"}
       /\ DOMAIN response.body.aqi = {"value", "description", "class", "color"}
       /\ DOMAIN response.body.components = {"pm2_5", "pm10", "co", "no2", "so2", "o3"}
       /\ DOMAIN response.body.location = {"lat", "lon", "name"}
       /\ response.body.location.name = Sentinel

C4_Witness ==
    /\ pc = "done" /\ PollutionValid /\ CoordsNumeric
    /\ gresp.kind = "raise" /\ fresp.kind = "raise"
    /\ response.status = 200 /\ response.body.location.name = Sentinel

\* C5: an empty or absent list and a first entry without an AQI are answered with
\* the same data-unavailable outcome, and with no partial result.
C5_SameUnavailableOutcome ==
    ( /\ pc = "done" /\ Http200(poll) /\ poll.body.json
      /\ \/ "list" \notin DOMAIN poll.body.data
         \/ poll.body.data.list = <<>>
         \/ "main" \notin DOMAIN poll.body.data.list[1]
         \/ "aqi" \notin DOMAIN poll.body.data.list[1].main )
    => response = Error(404, "No air quality data available")

\* C6: a request whose lat or lon is missing or non-numeric is answered with a
\* caller error and no upstream request, pollution or geocoding, is ever issued.
C6_MalformedRejectedEarly ==
    ~CoordsNumeric =>
        /\ calls = <<>>
        /\ pc = "done" => response.status = 400

\* C7 as stated: on a primary answer 200/OK with a result, the resolver ends in the
\* primary tier with postal code, street, then area else city, joined with ", ",
\* and with the result's formatted address when none of them is present.
C7_PrimaryNameOrFormattedAddress ==
    (pc = "done" /\ GOOGLE_API_KEY /\ PrimarySuccess(gresp)) =>
        LET parts == ExpectedPrimaryParts(FirstResult(gresp)) IN
        /\ Count("secondary") = 0
        /\ geo.state = "returned"
        /\ IF parts # <<>> THEN geo.value = CommaJoined(parts)
           ELSE /\ "formatted_address" \in DOMAIN FirstResult(gresp)
                /\ geo.value = FirstResult(gresp).formatted_address

\* C7 amended: ... and, when none of them is present, with the result's formatted
\* address if it has one and with 'Unknown Location' if it has none.
C7_PrimaryName ==
    (pc = "done" /\ GOOGLE_API_KEY /\ PrimarySuccess(gresp)) =>
        LET parts == ExpectedPrimaryParts(FirstResult(gresp)) IN
        /\ Count("secondary") = 0
        /\ geo.state = "returned"
        /\ IF parts # <<>> THEN geo.value = CommaJoined(parts)
           ELSE IF "formatted_address" \in DOMAIN FirstResult(gresp)
           THEN geo.value = FirstResult(gresp).formatted_address
           ELSE geo.value = Sentinel

C7_Witness ==
    /\ pc = "done" /\ GOOGLE_API_KEY /\ PrimarySuccess(gresp)
    /\ Get(FirstResult(gresp), "address_components", <<>>) =
          <<[types |-> {"locality", "political"}, long_name |-> "N2"],
            [types |-> {"neighborhood", "political"}, long_name |-> "N1"]>>
    /\ geo.state = "returned" /\ geo.value = "N1"

\* C10 as stated: the sentinel is returned only after the secondary was attempted.
C10_SentinelOnlyAfterSecondary ==
    (geo.state = "returned" /\ geo.value = Sentinel) => Count("secondary") >= 1

\* C10 amended: the sentinel is returned only after the secondary was attempted, or
\* by the primary tier for an answer 200/OK whose first result has none of postal
\* code, street, area, city and no formatted address.
C10_SentinelOrigin ==
    (geo.state = "returned" /\ geo.value = Sentinel) =>
        \/ Count("secondary") >= 1
        \/ /\ GOOGLE_API_KEY /\ PrimarySuccess(gresp)
           /\ ExpectedPrimaryParts(FirstResult(gresp)) = <<>>
           /\ "formatted_address" \notin DOMAIN FirstResult(gresp)

C10_Witness ==
    /\ pc = "done" /\ geo.state = "returned" /\ geo.value = Sentinel
    /\ Count("secondary") = 0
    /\ "formatted_address" \notin DOMAIN FirstResult(gresp)

\* C8: for a guideline maximum of the table and a raw value >= 0 the percentage is
\* min(100, raw / max * 100): within 0..100, 100 from the maximum on, 0 at 0; for
\* a maximum of 0 it is 0.
C8_PercentageClamped ==
    (fn_arg.fn = "calculate_percentage" /\ fn_ret.done) =>
        LET v == fn_arg.value
            m == fn_arg.max_value
            p == fn_ret.value
        IN IF m = 0 THEN p = <<0, 1>>
           ELSE /\ p[2] > 0 /\ 0 <= p[1] /\ p[1] <= 100 * p[2]
                /\ v[1] >= m * v[2] => p = <<100, 1>>
                /\ v[1] = 0 => p = <<0, 1>>
                /\ v[1] < m * v[2] => p[1] * v[2] * m = 100 * v[1] * p[2]

C8_Witness ==
    /\ fn_arg.fn = "calculate_percentage" /\ fn_ret.done
    /\ fn_arg.max_value = 25 /\ fn_arg.value = <<51, 2>>
    /\ fn_ret.value = <<100, 1>>

\* C9: the classifier returns the table row for 1..5 and the Unknown row for every
\* other integer.
AqiRows ==
    <<[description |-> "Good", class |-> "good", color |-> "#00e400"],
      [description |-> "Fair", class |-> "fair", color |-> "#ffff00"],
      [description |-> "Moderate", class |-> "moderate", color |-> "#ff7e00"],
      [description |-> "Poor", class |-> "poor", color |-> "#ff0000"],
      [description |-> "Very Poor", class |-> "very-poor", color |-> "#8f3f97"]>>

C9_ClassifierTable ==
    (fn_arg.fn = "get_air_quality_description" /\ fn_ret.done) =>
        fn_ret.value = IF fn_arg.aqi \in 1..5 THEN AqiRows[fn_arg.aqi]
                       ELSE [description |-> "Unknown", class |-> "unknown",
                             color |-> "#999999"]

C9_Witness ==
    /\ fn_arg.fn = "get_air_quality_description" /\ fn_ret.done
    /\ fn_arg.aqi = 6
    /\ fn_ret.value.class = "unknown"

====
